---------------------------- MODULE Spec2Model ----------------------------
(***************************************************************************)
(* A model of kythe/rust/extractor/src/lib.rs: generate_analysis and the   *)
(* CallbackShim it registers with the Rust compiler driver.                *)
(*                                                                         *)
(* Each process is a thread of one operating-system process that calls     *)
(* generate_analysis.  The environment variable RUST_SAVE_ANALYSIS_CONFIG  *)
(* and the file system are shared by the threads; everything else is local *)
(* to an invocation.  The compiler driver (rustc_driver, rustc_interface,  *)
(* rustc_save_analysis) is an external library: it is modelled by the      *)
(* points at which it calls the callback and by the ways in which its run  *)
(* can end (a normal Ok, a normal Err, a fatal-error unwind, any other     *)
(* panic).  Which of these a run takes is a function of the arguments and  *)
(* of the compilation unit on disk (the variable source).                  *)
(***************************************************************************)
EXTENDS Integers, Sequences, FiniteSets, TLC

\* ------------------------------------------------------------------ bounds

\* The number of generate_analysis calls made in one behaviour, over all threads.
MaxCalls == 2

\* The threads that call generate_analysis.
Procs == {"t1", "t2"}

\* ------------------------------------------------------------------ inputs

\* rustc_arguments: the empty list, a list that starts with a program name, and
\* three lists that start with the empty-string placeholder.
ArgLists ==
    { << >>,
      << "rustc", "main.rs" >>,
      << "" >>,
      << "", "main.rs" >>,
      << "", "--crate-name=foo", "main.rs" >> }

\* (output_dir, output_file_name) pairs handed to generate_analysis.
CaptureConfigs ==
    { [output_dir |-> "out1", output_file_name |-> "foo"],
      [output_dir |-> "out2", output_file_name |-> "bar"] }

\* What the compilation unit on disk makes the driver do, for an argument list
\* that names it:
\*   valid          analysis succeeds, the dump succeeds
\*   syntax_error   the front end reports errors and run() returns Err
\*   fatal_error    the front end raises a fatal error (FatalError.raise())
\*   no_crate_name  analysis succeeds, queries.crate_name() is Err
\*   no_global_ctxt analysis succeeds, queries.global_ctxt() is Err
\*   dump_fatal     analysis succeeds, process_crate raises a fatal error
\*                  (the dump file cannot be created)
SourceKinds ==
    { "valid", "syntax_error", "fatal_error",
      "no_crate_name", "no_global_ctxt", "dump_fatal" }

\* ------------------------------------------------------------------ values

None == << >>
Some(x) == << x >>

\* The three error strings of generate_analysis (Result<(), String>).
ErrEmpty == "Arguments vector should not be empty"
ErrFirst == "The first argument must be an empty string"
ErrCompiler == "A compiler error occurred"

\* generate_analysis returned Ok(()).
OkUnit == "Ok(())"

\* generate_analysis did not return: a panic unwound through it.
Unwound == "panic"

\* No result yet.
NoResult == "pending"

\* The environment variable and the value written to it.
Unset == "unset"
FixedConfig ==
    "{\"output_file\":null,\"full_docs\":true,\"pub_only\":false,\"reachable_only\":false,\"distro_crate\":false,\"signatures\":false,\"borrow_data\":false}"

\* What the driver's serializer uses when the variable is absent.
DefaultConfig == "default"

\* ------------------------------------------------- generate_analysis, pure

\* Validation passed.
Valid == "valid"

\* Lines 39-43 with the emptiness test left out: an empty list reaches the driver.
ValidateNoEmptyCheck(a) ==
    IF Len(a) > 0 /\ a[1] # "" THEN ErrFirst ELSE Valid

\* Lines 39-43 with one message for both violations.
ValidateOneMessage(a) ==
    IF Len(a) = 0 \/ a[1] # "" THEN ErrEmpty ELSE Valid

\* Lines 39-43: rustc_arguments.get(0).ok_or_else(..)?, then the comparison of
\* the first argument with the empty string.
Validate(a) ==
    IF Len(a) = 0 THEN ErrEmpty
    ELSE IF a[1] # "" THEN ErrFirst
    ELSE Valid

\* Line 48 with the placeholder stripped before the driver sees the list.
ForwardedArgsStripped(a) == Tail(a)

\* Line 48: RunCompiler::new(&rustc_arguments, ..): the list is passed as it is.
ForwardedArgs(a) == a

\* Lines 65-67: CallbackShim::new.
NewCallbackShim(dir, name) == [output_dir |-> dir, output_file_name |-> name]

\* Line 47: rustc_driver::catch_fatal_errors(f).  The closure's value is wrapped
\* in Ok; an unwind that carries the driver's fatal-error marker becomes Err; any
\* other panic is resumed and unwinds through the caller.
CatchFatalErrors(outcome) ==
    CASE outcome = "Fatal" -> [tag |-> "Err", value |-> "ErrorReported"]
      [] outcome = "Panic" -> [tag |-> "Unwind", value |-> "panic"]
      [] OTHER -> [tag |-> "Ok", value |-> outcome]

\* Line 50: .map(|_| ()): the value inside Ok, which is the Result that run()
\* returned, is dropped.
MapUnit(r) == IF r.tag = "Ok" THEN [tag |-> "Ok", value |-> "()"] ELSE r

\* Line 51: .map_err(|_| "A compiler error occurred".to_string()).
MapErr(r) == IF r.tag = "Err" THEN [tag |-> "Err", value |-> ErrCompiler] ELSE r

\* Lines 47-53: what generate_analysis does with the outcome of the wrapped run:
\* the ? returns the Err, otherwise Ok(()) is returned on line 53.
WrappedResult(outcome) ==
    LET r == MapErr(MapUnit(CatchFatalErrors(outcome)))
    IN  CASE r.tag = "Err" -> r.value
          [] r.tag = "Unwind" -> Unwound
          [] OTHER -> OkUnit

\* ------------------------------------------------------------ driver, pure

\* What the driver does with an argument list.  With no argument after the
\* placeholder it prints its usage and run() returns Ok(()) before any callback
\* is called; otherwise the compilation unit decides.
DriverPlan(a, src) == IF Len(a) <= 1 THEN "usage" ELSE src

\* The plans in which the driver completes analysis and calls after_analysis.
ReachesAnalysis ==
    { "valid", "no_crate_name", "no_global_ctxt", "dump_fatal" }

\* Line 81: compiler.input(): the input file of the argument list.
InputOf(a) == a[Len(a)]

\* Line 82: queries.crate_name(): the name given by --crate-name, or else the
\* stem of the input file.
CrateNameOf(a) ==
    IF \E i \in DOMAIN a : a[i] = "--crate-name=foo" THEN "foo"
    ELSE IF InputOf(a) = "main.rs" THEN "main"
    ELSE "rust_out"

\* Line 104 with the handler named after the crate that line 82 read.
DumpHandlerNewCrateName(shim, crate_name) ==
    [odir |-> Some(shim.output_dir), cratename |-> crate_name]

\* Line 104: DumpHandler::new(Some(self.output_dir.as_path()),
\* &self.output_file_name).
DumpHandlerNew(shim, crate_name) ==
    [odir |-> Some(shim.output_dir), cratename |-> shim.output_file_name]

\* The file a dump handler writes: {odir}/save-analysis/{cratename}.json.
DumpPath(h) == << h.odir[1], "save-analysis", h.cratename \o ".json" >>

\* The configuration the serializer reads from the environment during the dump.
ConfigRead(value) == IF value = Unset THEN DefaultConfig ELSE value

\* What process_crate writes: it depends on the crate, the input and the
\* configuration read.
Content(crate_name, input, config) ==
    [crate |-> crate_name, input |-> input, config |-> config]

\* Line 73 leaving the flag as the driver set it.
ConfigSaveAnalysisOff == FALSE

\* Line 73: config.opts.unstable_opts.save_analysis = true.
ConfigSaveAnalysis == TRUE

\* Lines 91-94 with the output file of the record taken from the CallbackShim.
OverrideRecordWithOutputFile(shim, crate_name) ==
    "{\"output_file\":\"" \o shim.output_file_name \o ".json\",\"full_docs\":true}"

\* Lines 91-94: the value written to the variable is a literal: it depends on
\* neither the CallbackShim nor the crate name.
OverrideRecord(shim, crate_name) == FixedConfig

\* Lines 81-108 with the dump before the write of the variable.
HookOrderDumpFirst == << "read", "dump", "set_var", "stop" >>

\* Lines 81-108 without the write of the variable.
HookOrderNoSetVar == << "read", "dump", "stop" >>

\* Lines 81-108: the order of the effects of after_analysis.
HookOrder == << "read", "set_var", "dump", "stop" >>

\* Line 108 returning Compilation::Continue.
AfterAnalysisReturnsContinue == "Continue"

\* Line 108: after_analysis returns Compilation::Stop.
AfterAnalysisReturns == "Stop"

\* ------------------------------------------------------------------- state

VARIABLES
    pc,             \* per thread: where its generate_analysis call stands
    call,           \* per thread: the parameters of its current (or last) call
    callback_shim,  \* per thread: the CallbackShim of the call, if constructed
    driver,         \* per thread: the compiler driver the call runs
    hook,           \* per thread: the locals of after_analysis
    result,         \* per thread: what the call returned
    env,            \* the environment variable RUST_SAVE_ANALYSIS_CONFIG
    files,          \* the dump files on disk
    source,         \* the compilation unit on disk
    calls,          \* how many calls have been made
    overlapped,     \* per thread: its call ran while another call was running
    events,         \* per thread: the effects of its call, in order
    log             \* the calls that have ended, in the order they ended

vars ==
    << pc, call, callback_shim, driver, hook, result, env, files, source,
       calls, overlapped, events, log >>

\* The dump files the model can hold.
Paths ==
    { DumpPath([odir |-> Some(c.output_dir), cratename |-> n]) :
        c \in CaptureConfigs,
        n \in {k.output_file_name : k \in CaptureConfigs}
              \cup {"foo", "main", "rust_out"} }

\* A driver that has not been entered.
NoDriver ==
    [ invoked |-> FALSE, args |-> << >>, save_analysis |-> FALSE,
      analysed |-> FALSE, codegen |-> FALSE, outcome |-> "none" ]

\* after_analysis before it is called.
NoHook ==
    [ pos |-> 0, input |-> None, crate_name |-> None, wrote |-> None,
      handler |-> None, read |-> None, written |-> None, ret |-> None ]

\* The thread is inside generate_analysis.
Active(p) == pc[p] \notin {"idle", "done"}

\* The plan of the driver that thread p runs.
Plan(p) == DriverPlan(driver[p].args, source)

\* The entry of the log for the call of thread p that ends with result r.
LogEntry(p, r, h) ==
    [ id |-> call[p].id,
      rustc_arguments |-> call[p].rustc_arguments,
      output_dir |-> call[p].output_dir,
      output_file_name |-> call[p].output_file_name,
      result |-> r,
      content |-> h.written,
      overlapped |-> overlapped[p] ]

Init ==
    /\ pc = [p \in Procs |-> "idle"]
    /\ call = [p \in Procs |->
                 [ id |-> 0, rustc_arguments |-> << >>,
                   output_dir |-> "", output_file_name |-> "" ]]
    /\ callback_shim = [p \in Procs |-> None]
    /\ driver = [p \in Procs |-> NoDriver]
    /\ hook = [p \in Procs |-> NoHook]
    /\ result = [p \in Procs |-> NoResult]
    /\ env = [value |-> Unset, writer |-> 0]
    /\ files = [f \in Paths |-> None]
    /\ source \in SourceKinds
    /\ calls = 0
    /\ overlapped = [p \in Procs |-> FALSE]
    /\ events = [p \in Procs |-> << >>]
    /\ log = << >>

\* ----------------------------------------------------------------- actions

\* Lines 39-45 with the variable written on entry, before the validation.
EntrySharedWritesEnv ==
    /\ env' = [value |-> FixedConfig, writer |-> 0]
    /\ UNCHANGED files

\* Lines 39-45: validation and construction touch neither the environment nor
\* the file system.
EntryShared == UNCHANGED << env, files >>

\* Lines 34-48: a thread calls generate_analysis(a, c.output_dir,
\* c.output_file_name).  The arguments are validated; a violation returns the
\* error at once; otherwise the CallbackShim is constructed and the driver is
\* entered with the arguments.
GenerateAnalysis(p, a, c) ==
    LET others == {q \in Procs \ {p} : Active(q)}
        v == Validate(a)
        me == [ id |-> calls + 1, rustc_arguments |-> a,
                output_dir |-> c.output_dir,
                output_file_name |-> c.output_file_name ]
    IN  /\ pc[p] \in {"idle", "done"}
        /\ calls < MaxCalls
        /\ calls' = calls + 1
        /\ call' = [call EXCEPT ![p] = me]
        /\ hook' = [hook EXCEPT ![p] = NoHook]
        /\ overlapped' =
             [q \in Procs |->
                IF q = p THEN others # {}
                ELSE IF q \in others THEN TRUE
                ELSE overlapped[q]]
        /\ IF v # Valid
           THEN /\ pc' = [pc EXCEPT ![p] = "done"]
                /\ result' = [result EXCEPT ![p] = v]
                /\ callback_shim' = [callback_shim EXCEPT ![p] = None]
                /\ driver' = [driver EXCEPT ![p] = NoDriver]
                /\ events' = [events EXCEPT ![p] = << >>]
                /\ log' = Append(log,
                     [ id |-> me.id, rustc_arguments |-> a,
                       output_dir |-> me.output_dir,
                       output_file_name |-> me.output_file_name,
                       result |-> v, content |-> None,
                       overlapped |-> others # {} ])
           ELSE /\ pc' = [pc EXCEPT ![p] = "running"]
                /\ result' = [result EXCEPT ![p] = NoResult]
                /\ callback_shim' = [callback_shim EXCEPT ![p] =
                     Some(NewCallbackShim(c.output_dir, c.output_file_name))]
                /\ driver' = [driver EXCEPT ![p] =
                     [NoDriver EXCEPT !.invoked = TRUE,
                                      !.args = ForwardedArgs(a)]]
                /\ events' = [events EXCEPT ![p] = << "construct" >>]
                /\ log' = log
        /\ EntryShared
        /\ UNCHANGED source

\* The driver ends its run: the outcome is recorded and control goes back to
\* line 49.
DriverEnds(p, outcome) ==
    /\ pc' = [pc EXCEPT ![p] = "driver_done"]
    /\ driver' = [driver EXCEPT ![p].outcome = outcome]

\* Line 48, run(): no input is given; the driver prints its usage and returns
\* Ok(()) without calling the callback.
DriverNoInput(p) ==
    /\ pc[p] = "running"
    /\ Plan(p) = "usage"
    /\ DriverEnds(p, "RunOk")
    /\ UNCHANGED << call, callback_shim, hook, result, env, files, source,
                    calls, overlapped, events, log >>

\* Lines 72-74: the driver calls config, which sets save_analysis.
Config(p) ==
    /\ pc[p] = "running"
    /\ Plan(p) # "usage"
    /\ pc' = [pc EXCEPT ![p] = "configured"]
    /\ driver' = [driver EXCEPT ![p].save_analysis = ConfigSaveAnalysis]
    /\ events' = [events EXCEPT ![p] = Append(@, "config")]
    /\ UNCHANGED << call, callback_shim, hook, result, env, files, source,
                    calls, overlapped, log >>

\* Line 48, run(): the front end fails before analysis is complete, either by
\* returning Err from run() or by raising a fatal error.
DriverFrontEndFails(p) ==
    /\ pc[p] = "configured"
    /\ Plan(p) \in {"syntax_error", "fatal_error"}
    /\ DriverEnds(p, IF Plan(p) = "syntax_error" THEN "RunErr" ELSE "Fatal")
    /\ UNCHANGED << call, callback_shim, hook, result, env, files, source,
                    calls, overlapped, events, log >>

\* Line 48, run(): the driver completes analysis and calls after_analysis.
DriverAnalysis(p) ==
    /\ pc[p] = "configured"
    /\ Plan(p) \in ReachesAnalysis
    /\ pc' = [pc EXCEPT ![p] = "after_analysis"]
    /\ driver' = [driver EXCEPT ![p].analysed = TRUE]
    /\ hook' = [hook EXCEPT ![p].pos = 1]
    /\ events' = [events EXCEPT ![p] = Append(@, "analysis")]
    /\ UNCHANGED << call, callback_shim, result, env, files, source, calls,
                    overlapped, log >>

\* The effect of after_analysis that thread p performs next.
HookStep(p) ==
    IF pc[p] = "after_analysis" /\ hook[p].pos \in DOMAIN HookOrder
    THEN HookOrder[hook[p].pos]
    ELSE "none"

\* Lines 81-82: the input and the crate name are read from the driver; the
\* unwrap() panics when the crate name is unavailable.
AfterAnalysisRead(p) ==
    /\ HookStep(p) = "read"
    /\ IF Plan(p) = "no_crate_name"
       THEN /\ DriverEnds(p, "Panic")
            /\ UNCHANGED hook
       ELSE /\ hook' = [hook EXCEPT
                 ![p].pos = @ + 1,
                 ![p].input = Some(InputOf(driver[p].args)),
                 ![p].crate_name = Some(CrateNameOf(driver[p].args))]
            /\ UNCHANGED << pc, driver >>
    /\ events' = [events EXCEPT ![p] = Append(@, "read")]
    /\ UNCHANGED << call, callback_shim, result, env, files, source, calls,
                    overlapped, log >>

\* Lines 91-94: std::env::set_var("RUST_SAVE_ANALYSIS_CONFIG", ..).
AfterAnalysisSetVar(p) ==
    /\ HookStep(p) = "set_var"
    /\ LET v == OverrideRecord(callback_shim[p][1], hook[p].crate_name[1])
       IN  /\ env' = [value |-> v, writer |-> call[p].id]
           /\ hook' = [hook EXCEPT ![p].pos = @ + 1, ![p].wrote = Some(v)]
    /\ events' = [events EXCEPT ![p] = Append(@, "set_var")]
    /\ UNCHANGED << pc, call, callback_shim, driver, result, files, source,
                    calls, overlapped, log >>

\* Lines 98-106: the global context is taken (the unwrap() panics when it is
\* unavailable) and process_crate is called with a dump handler made from the
\* fields of the CallbackShim.  The serializer reads the variable and writes the
\* file of the handler, or raises a fatal error when it cannot create it.
AfterAnalysisDump(p) ==
    /\ HookStep(p) = "dump"
    /\ IF Plan(p) = "no_global_ctxt"
       THEN /\ DriverEnds(p, "Panic")
            /\ UNCHANGED << hook, files, events >>
       ELSE LET shim == callback_shim[p][1]
                h == DumpHandlerNew(shim, hook[p].crate_name[1])
                c == Content(hook[p].crate_name[1], hook[p].input[1],
                             ConfigRead(env.value))
            IN  /\ events' = [events EXCEPT ![p] = Append(@, "dump")]
                /\ IF Plan(p) = "dump_fatal"
                   THEN /\ DriverEnds(p, "Fatal")
                        /\ hook' = [hook EXCEPT ![p].handler = Some(h),
                                                ![p].read = Some(env)]
                        /\ UNCHANGED files
                   ELSE /\ files' = [files EXCEPT ![DumpPath(h)] = Some(c)]
                        /\ hook' = [hook EXCEPT ![p].pos = @ + 1,
                                                ![p].handler = Some(h),
                                                ![p].read = Some(env),
                                                ![p].written = Some(c)]
                        /\ UNCHANGED << pc, driver >>
    /\ UNCHANGED << call, callback_shim, result, env, source, calls,
                    overlapped, log >>

\* Line 108: after_analysis returns to the driver.
AfterAnalysisReturn(p) ==
    /\ HookStep(p) = "stop"
    /\ pc' = [pc EXCEPT ![p] = "hook_returned"]
    /\ hook' = [hook EXCEPT ![p].pos = @ + 1,
                            ![p].ret = Some(AfterAnalysisReturns)]
    /\ events' = [events EXCEPT ![p] = Append(@, "stop")]
    /\ UNCHANGED << call, callback_shim, driver, result, env, files, source,
                    calls, overlapped, log >>

\* Line 48, run(): the driver acts on what after_analysis returned.  On Stop it
\* leaves the pipeline; on Continue it goes on to code generation.  No error was
\* reported, so run() returns Ok(()).
DriverAfterHook(p) ==
    /\ pc[p] = "hook_returned"
    /\ pc' = [pc EXCEPT ![p] = "driver_done"]
    /\ driver' = [driver EXCEPT
         ![p].outcome = "RunOk",
         ![p].codegen = (hook[p].ret # Some("Stop"))]
    /\ UNCHANGED << call, callback_shim, hook, result, env, files, source,
                    calls, overlapped, events, log >>

\* Lines 47-53: the wrapped call is over; its outcome becomes the result of
\* generate_analysis.
Return(p) ==
    /\ pc[p] = "driver_done"
    /\ pc' = [pc EXCEPT ![p] = "done"]
    /\ result' = [result EXCEPT ![p] = WrappedResult(driver[p].outcome)]
    /\ log' = Append(log, LogEntry(p, WrappedResult(driver[p].outcome), hook[p]))
    /\ UNCHANGED << call, callback_shim, driver, hook, env, files, source,
                    calls, overlapped, events >>

Next ==
    \E p \in Procs :
        \/ \E a \in ArgLists, c \in CaptureConfigs : GenerateAnalysis(p, a, c)
        \/ DriverNoInput(p)
        \/ Config(p)
        \/ DriverFrontEndFails(p)
        \/ DriverAnalysis(p)
        \/ AfterAnalysisRead(p)
        \/ AfterAnalysisSetVar(p)
        \/ AfterAnalysisDump(p)
        \/ AfterAnalysisReturn(p)
        \/ DriverAfterHook(p)
        \/ Return(p)

Spec == Init /\ [][Next]_vars

\* ------------------------------------------------------------------ claims

\* The error values that report a violated argument precondition.
InvalidArguments == {ErrEmpty, ErrFirst}

\* The calls that have ended.
Ended == DOMAIN log

\* C1: for valid arguments generate_analysis returns Ok only when the driver
\* run finished without a compile error: a run that ends in a fatal abort, and
\* a run that returns Err normally, both give the CompilerError result.
C1_OkOnlyWithoutCompileError ==
    \A p \in Procs :
        (pc[p] = "done" /\ driver[p].invoked) =>
            /\ (driver[p].outcome \in {"RunErr", "Fatal"} =>
                    result[p] = ErrCompiler)
            /\ (result[p] = OkUnit => driver[p].outcome = "RunOk")

\* C2: a call with an empty argument list returns an InvalidArguments error,
\* and in it no CallbackShim is constructed, the driver is not invoked and
\* neither hook runs.
C2_EmptyArgsRejected ==
    \A p \in Procs :
        (pc[p] # "idle" /\ call[p].rustc_arguments = << >>) =>
            /\ pc[p] = "done"
            /\ result[p] \in InvalidArguments
            /\ callback_shim[p] = None
            /\ ~driver[p].invoked
            /\ ~driver[p].save_analysis
            /\ hook[p] = NoHook
            /\ events[p] = << >>

\* A call with an empty argument list has returned.
C2_Witness ==
    \E p \in Procs :
        /\ pc[p] = "done"
        /\ call[p].rustc_arguments = << >>
        /\ result[p] = ErrEmpty

\* C3: a call whose argument list is non-empty and does not start with the
\* empty string returns an InvalidArguments error without invoking the driver;
\* a call whose list starts with the empty string passes validation and the
\* driver is invoked with exactly that list.
C3_FirstArgumentDecides ==
    \A p \in Procs :
        LET a == call[p].rustc_arguments
        IN  (pc[p] # "idle" /\ Len(a) > 0) =>
                IF a[1] # ""
                THEN /\ pc[p] = "done"
                     /\ result[p] \in InvalidArguments
                     /\ callback_shim[p] = None
                     /\ ~driver[p].invoked
                     /\ events[p] = << >>
                ELSE /\ result[p] \notin InvalidArguments
                     /\ callback_shim[p] # None
                     /\ driver[p].invoked
                     /\ driver[p].args = a

\* One call was rejected for its first argument, and another call, with three
\* arguments, has entered the driver.
C3_Witness ==
    \E p, q \in Procs :
        /\ pc[p] = "done"
        /\ call[p].rustc_arguments = << "rustc", "main.rs" >>
        /\ result[p] = ErrFirst
        /\ driver[q].invoked
        /\ Len(driver[q].args) = 3
        /\ driver[q].args = call[q].rustc_arguments

\* C4: every abrupt failure inside the wrapped driver invocation, a failure in
\* lines 81-106 of after_analysis included, reaches the caller as the
\* CompilerError result and never unwinds through generate_analysis.
C4_AbruptFailureIsCompilerError ==
    \A p \in Procs :
        /\ result[p] # Unwound
        /\ (pc[p] = "done" /\ driver[p].outcome \in {"Fatal", "Panic"}) =>
               result[p] = ErrCompiler

\* C5: whenever after_analysis returns it returns Stop, and no driver enters
\* code generation.
C5_StopAfterAnalysis ==
    \A p \in Procs :
        /\ (hook[p].ret # None => hook[p].ret = Some("Stop"))
        /\ ~driver[p].codegen

\* A call on a valid unit has ended: the dump was written, after_analysis
\* returned, the driver acted on it and left the pipeline.
C5_Witness ==
    \E p \in Procs :
        /\ pc[p] = "done"
        /\ result[p] = OkUnit
        /\ hook[p].written # None
        /\ hook[p].ret = Some("Stop")
        /\ driver[p].analysed
        /\ ~driver[p].codegen

\* C6: on a successful call that dumped, the dump handler is named after the
\* crate name that after_analysis read, so that the artifact is
\* {output_dir}/save-analysis/{crate_name}.json.
C6_ArtifactNamedAfterCrate ==
    \A p \in Procs :
        (pc[p] = "done" /\ result[p] = OkUnit /\ hook[p].written # None) =>
            /\ hook[p].handler[1].cratename = hook[p].crate_name[1]
            /\ DumpPath(hook[p].handler[1]) =
                 << call[p].output_dir, "save-analysis",
                    hook[p].crate_name[1] \o ".json" >>

\* The argument list violates the precondition of generate_analysis.
PreconditionViolated(a) == Len(a) = 0 \/ a[1] # ""

\* C7 as stated: there are two error values, one for every violation of the
\* argument precondition and one for every compiler error: any two calls that
\* violate the precondition return the same value.
C7_TwoErrorValues ==
    \A i, j \in Ended :
        /\ (PreconditionViolated(log[i].rustc_arguments)
              /\ PreconditionViolated(log[j].rustc_arguments)) =>
               log[i].result = log[j].result
        /\ log[i].result \notin {OkUnit, Unwound} =>
               (PreconditionViolated(log[i].rustc_arguments)
                  <=> log[i].result # ErrCompiler)

\* C7 as amended: there are three error values: one for an empty list, one for
\* a non-empty list whose first element is not the empty string, and one for
\* every error returned after validation has passed.
C7_ThreeErrorValues ==
    /\ Cardinality({ErrEmpty, ErrFirst, ErrCompiler}) = 3
    /\ \A i \in Ended :
        LET a == log[i].rustc_arguments
            r == log[i].result
        IN  /\ r \in {OkUnit, Unwound, ErrEmpty, ErrFirst, ErrCompiler}
            /\ (r = ErrEmpty <=> Len(a) = 0)
            /\ (r = ErrFirst <=> (Len(a) > 0 /\ a[1] # ""))
            /\ (r = ErrCompiler => ~PreconditionViolated(a))

\* The two violations of the precondition have both been reported, with
\* different values.
C7_Witness ==
    \E i, j \in Ended :
        /\ log[i].result = ErrEmpty
        /\ log[j].result = ErrFirst
        /\ log[i].result # log[j].result

\* C8: the variable is one slot shared by all threads and no lock is held
\* from its write to the dump, so a dump of one call can read a record that
\* another, overlapping call wrote last; the dump of a call that overlapped no
\* other call reads the record that the call itself wrote.
C8_SerializedDumpReadsOwnRecord ==
    \A p \in Procs :
        (hook[p].read # None /\ ~overlapped[p]) =>
            /\ hook[p].read[1].writer = call[p].id
            /\ hook[p].read[1].value = FixedConfig

\* Two calls overlapped and the dump of one of them read a record that the
\* other call wrote last.
C8_Witness ==
    \E p, q \in Procs :
        /\ p # q
        /\ overlapped[p]
        /\ hook[p].read # None
        /\ call[q].id # 0
        /\ hook[p].read[1].writer = call[q].id
        /\ hook[p].read[1].writer # call[p].id

\* C9: a call that fails validation changes neither the variable nor the files
\* on disk.
C9_ValidationFailureHasNoSideEffects ==
    [][ \A p \in Procs :
          (call'[p].id = calls + 1 /\ result'[p] \in InvalidArguments) =>
              (env' = env /\ files' = files) ]_vars

\* A call has failed validation in a state in which the variable is set and a
\* dump file exists.
C9_Witness ==
    \E p \in Procs :
        /\ pc[p] = "done"
        /\ result[p] \in InvalidArguments
        /\ env.value = FixedConfig
        /\ \E f \in Paths : files[f] # None

\* C10: two calls with the same arguments, output directory and file name,
\* neither of which overlapped another call, return the same result and, when
\* they succeed, dump the same content.
C10_SerializedRepeatIsIdentical ==
    \A i, j \in Ended :
        ( /\ log[i].rustc_arguments = log[j].rustc_arguments
          /\ log[i].output_dir = log[j].output_dir
          /\ log[i].output_file_name = log[j].output_file_name
          /\ ~log[i].overlapped
          /\ ~log[j].overlapped ) =>
            /\ log[i].result = log[j].result
            /\ (log[i].result = OkUnit => log[i].content = log[j].content)

\* The same call was made twice, one after the other: the first found the
\* variable unset and left it set, and both dumped.
C10_Witness ==
    \E i, j \in Ended :
        /\ i < j
        /\ log[i].rustc_arguments = log[j].rustc_arguments
        /\ log[i].output_dir = log[j].output_dir
        /\ log[i].output_file_name = log[j].output_file_name
        /\ ~log[i].overlapped
        /\ ~log[j].overlapped
        /\ log[i].result = OkUnit
        /\ log[j].result = OkUnit
        /\ log[i].content # None
        /\ log[j].content = log[i].content
        /\ env.value = FixedConfig

\* The effects of a call up to the point at which after_analysis is called.
Lifecycle == << "construct", "config", "analysis" >>

\* The effects of after_analysis, in the order of lines 81, 91, 98 and 108.
HookEffects == << "read", "set_var", "dump", "stop" >>

\* The state of the callback of thread p: Constructed by CallbackShim::new,
\* Configured once config has run, Captured once after_analysis is called.
CallbackState(p) ==
    IF Len(events[p]) = 0 THEN "None"
    ELSE IF Len(events[p]) = 1 THEN "Constructed"
    ELSE IF Len(events[p]) <= 3 THEN "Configured"
    ELSE "Captured"

\* C11: the callback moves Constructed -> Configured -> Captured and in no
\* other way; after_analysis, and so the dump, runs only after config has set
\* save_analysis and the driver has completed analysis, and the flag is still
\* set whenever the dump routine is invoked.
C11_LifecycleOrder ==
    \A p \in Procs :
        /\ \A i \in DOMAIN events[p] :
              IF i <= 3 THEN events[p][i] = Lifecycle[i]
              ELSE events[p][i] \in {HookEffects[k] : k \in DOMAIN HookEffects}
        /\ CallbackState(p) \in {"Configured", "Captured"} =>
              driver[p].save_analysis
        /\ (CallbackState(p) = "Captured" \/ pc[p] = "after_analysis"
              \/ hook[p].handler # None) =>
              /\ driver[p].save_analysis
              /\ driver[p].analysed
              /\ Len(events[p]) >= 3

\* The dump routine has been invoked in a call whose callback went through
\* Constructed and Configured, with the flag set.
C11_Witness ==
    \E p \in Procs :
        /\ CallbackState(p) = "Captured"
        /\ SubSeq(events[p], 1, 3) = Lifecycle
        /\ hook[p].handler # None
        /\ hook[p].written # None
        /\ driver[p].save_analysis
        /\ driver[p].analysed

\* C12: inside after_analysis the effects occur in the order read, set_var,
\* dump, stop: the variable is written before the serializer reads it, and a
\* failure to read the crate name happens before any write of the variable.
C12_HookOrder ==
    \A p \in Procs :
        LET h == SubSeq(events[p], 4, Len(events[p]))
        IN  /\ \A i \in DOMAIN h : i <= 4 /\ h[i] = HookEffects[i]
            /\ hook[p].read # None => hook[p].wrote # None
            /\ hook[p].ret # None => hook[p].written # None
            /\ hook[p].crate_name = None =>
                  /\ hook[p].wrote = None
                  /\ hook[p].read = None
                  /\ (call[p].id # 0 => env.writer # call[p].id)

\* after_analysis has run to its end: all four effects occurred and the
\* serializer read the record that this call had written.
C12_Witness ==
    \E p \in Procs :
        /\ SubSeq(events[p], 4, Len(events[p])) = HookEffects
        /\ hook[p].wrote = Some(FixedConfig)
        /\ hook[p].read # None
        /\ hook[p].read[1].writer = call[p].id
        /\ hook[p].ret # None

\* How many times the effect e occurred in the call of thread p.
Count(p, e) == Cardinality({i \in DOMAIN events[p] : events[p][i] = e})

\* C13: a call writes the variable at most once, and only in after_analysis;
\* nothing clears the variable; and after a call in which after_analysis ran
\* and which returned Ok or the CompilerError result, the variable holds the
\* value written.
C13_RecordLifecycle ==
    /\ [](\A p \in Procs :
            /\ Count(p, "set_var") <= 1
            /\ (hook[p].wrote # None <=> Count(p, "set_var") = 1)
            /\ (hook[p].wrote # None => Len(events[p]) > 3)
            /\ ( /\ pc[p] = "done"
                 /\ Len(events[p]) > 3
                 /\ result[p] \in {OkUnit, ErrCompiler} ) =>
                   /\ hook[p].wrote # None
                   /\ env.value = hook[p].wrote[1]
                   /\ env.value # Unset)
    /\ [][ /\ env' # env =>
               \E p \in Procs :
                   /\ pc[p] = "after_analysis"
                   /\ hook[p].wrote = None
                   /\ hook'[p].wrote = Some(env'.value)
                   /\ env'.writer = call[p].id
           /\ env.value # Unset => env'.value # Unset ]_vars

\* A call in which after_analysis ran has returned the CompilerError result,
\* and the variable still holds what the call wrote.
C13_Witness ==
    \E p \in Procs :
        /\ pc[p] = "done"
        /\ result[p] = ErrCompiler
        /\ Count(p, "set_var") = 1
        /\ hook[p].wrote = Some(FixedConfig)
        /\ env = [value |-> FixedConfig, writer |-> call[p].id]

\* C14: the record written is one fixed value whatever the arguments, the
\* output directory, the file name and the crate name of the call are.
C14_RecordIsFixed ==
    /\ env.value \in {Unset, FixedConfig}
    /\ \A p \in Procs : hook[p].wrote # None => hook[p].wrote = Some(FixedConfig)
    /\ \A p, q \in Procs :
          (hook[p].wrote # None /\ hook[q].wrote # None) =>
              hook[p].wrote = hook[q].wrote

\* Two calls that differ in arguments, output directory, file name and crate
\* name have both written the variable.
C14_Witness ==
    \E p, q \in Procs :
        /\ hook[p].wrote # None
        /\ hook[q].wrote # None
        /\ call[p].rustc_arguments # call[q].rustc_arguments
        /\ call[p].output_dir # call[q].output_dir
        /\ call[p].output_file_name # call[q].output_file_name
        /\ hook[p].crate_name # hook[q].crate_name
        /\ hook[p].wrote = hook[q].wrote

\* C15: whenever generate_analysis returns Ok, after_analysis ran and the dump
\* routine was invoked exactly once in that call, so the artifact was written.
C15_SuccessImpliesDump ==
    \A p \in Procs :
        (pc[p] = "done" /\ result[p] = OkUnit) =>
            /\ Len(events[p]) > 3
            /\ Count(p, "dump") = 1
            /\ hook[p].written # None

\* C16: neither hook changes the fields of the CallbackShim, and the dump
\* handler is made from exactly the output directory and the file name that
\* were passed to generate_analysis.
C16_CaptureConfigImmutable ==
    \A p \in Procs :
        /\ callback_shim[p] # None =>
              callback_shim[p] =
                  Some([ output_dir |-> call[p].output_dir,
                         output_file_name |-> call[p].output_file_name ])
        /\ hook[p].handler # None =>
              hook[p].handler =
                  Some([ odir |-> Some(call[p].output_dir),
                         cratename |-> call[p].output_file_name ])

\* Both hooks have run and the handler was made for a call whose file name is
\* not the name of its crate.
C16_Witness ==
    \E p \in Procs :
        /\ driver[p].save_analysis
        /\ hook[p].handler # None
        /\ hook[p].crate_name # Some(call[p].output_file_name)
        /\ hook[p].handler[1].cratename = call[p].output_file_name
        /\ hook[p].handler[1].odir = Some("out2")
        /\ callback_shim[p][1].output_dir = "out2"

\* C17: whatever the interleaving of two overlapping calls, the value of the
\* variable at the moment a dump starts is the fixed configuration; the race
\* decides only which call wrote it last.
C17_DumpReadsFixedConfig ==
    \A p \in Procs :
        hook[p].read # None =>
            /\ hook[p].read[1].value = FixedConfig
            /\ hook[p].read[1].writer \in 1..calls

\* Two overlapping calls have both dumped; one of them read the record as the
\* other had written it, and both read the fixed configuration.
C17_Witness ==
    \E p, q \in Procs :
        /\ p # q
        /\ overlapped[p] /\ overlapped[q]
        /\ hook[p].read # None /\ hook[q].read # None
        /\ hook[p].read[1].writer = call[q].id
        /\ hook[q].read[1].writer = call[q].id
        /\ hook[p].read[1].value = FixedConfig
        /\ hook[q].read[1].value = FixedConfig

=============================================================================
